---- MODULE Spec2Model ----
(***************************************************************************)
(* estafette-gcloud-quota-exporter: the periodic fetch-and-publish loop,   *)
(* the gauge registry, the jittered sleep and the shutdown handling of the *)
(* three entry points main.go, unnamed/part_002 and unnamed/part_003.      *)
(* Strings are sequences of one-character strings.                         *)
(***************************************************************************)
EXTENDS Integers, Sequences, FiniteSets, TLC

(***************************************************************************)
(* Characters and the string functions of the Go standard library that the *)
(* code relies on.                                                         *)
(***************************************************************************)
UpperChars == <<"A","B","C","D","E","F","G","H","I","J","K","L","M",
                "N","O","P","Q","R","S","T","U","V","W","X","Y","Z">>

LowerChars == <<"a","b","c","d","e","f","g","h","i","j","k","l","m",
                "n","o","p","q","r","s","t","u","v","w","x","y","z">>

DigitChars == <<"0","1","2","3","4","5","6","7","8","9">>

IsUpper(c) == \E i \in DOMAIN UpperChars : UpperChars[i] = c

IsLower(c) == \E i \in DOMAIN LowerChars : LowerChars[i] = c

IsDigit(c) == \E i \in DOMAIN DigitChars : DigitChars[i] = c

\* strings.ToLower, one character
ToLowerChar(c) ==
    IF IsUpper(c)
    THEN LowerChars[CHOOSE i \in DOMAIN UpperChars : UpperChars[i] = c]
    ELSE c

\* strings.ToLower
ToLower(s) == [i \in DOMAIN s |-> ToLowerChar(s[i])]

\* strings.Split(s, sep) for a one-character separator: empty fields are kept,
\* and the empty string splits into one empty field
RECURSIVE StringsSplit(_, _)
StringsSplit(s, sep) ==
    IF \A i \in DOMAIN s : s[i] # sep
    THEN <<s>>
    ELSE LET i == CHOOSE k \in DOMAIN s :
                      s[k] = sep /\ \A j \in 1..(k - 1) : s[j] # sep
         IN  <<SubSeq(s, 1, i - 1)>> \o StringsSplit(SubSeq(s, i + 1, Len(s)), sep)

\* strings.Fields: split around runs of white space, no empty fields
StringsFields(s) == SelectSeq(StringsSplit(s, " "), LAMBDA f : f # <<>>)

\* strings.Join
RECURSIVE StringsJoin(_, _)
StringsJoin(fields, sep) ==
    IF fields = <<>> THEN <<>>
    ELSE IF Len(fields) = 1 THEN fields[1]
    ELSE fields[1] \o sep \o StringsJoin(Tail(fields), sep)

\* concatenation of a sequence of sequences
RECURSIVE Flatten(_)
Flatten(ss) == IF ss = <<>> THEN <<>> ELSE ss[1] \o Flatten(Tail(ss))

(***************************************************************************)
(* casee.ToSnakeCase, as called by the publishers, with the                *)
(* camelcase.Split it is built on.                                         *)
(***************************************************************************)
\* the character class camelcase.Split groups by
CharClass(c) ==
    IF IsLower(c) THEN 1 ELSE IF IsUpper(c) THEN 2 ELSE IF IsDigit(c) THEN 3 ELSE 4

\* first loop of camelcase.Split: runs of characters of one class
RECURSIVE ClassRuns(_, _)
ClassRuns(s, runes) ==
    IF s = <<>> THEN runes
    ELSE IF runes # <<>> /\ CharClass(runes[Len(runes)][1]) = CharClass(s[1])
         THEN ClassRuns(Tail(s),
                        [runes EXCEPT ![Len(runes)] = Append(@, s[1])])
         ELSE ClassRuns(Tail(s), Append(runes, <<s[1]>>))

\* second loop of camelcase.Split: the last upper-case character of a run
\* that is followed by a lower-case run moves to the lower-case run
RECURSIVE UpperToLowerFix(_, _)
UpperToLowerFix(runes, i) ==
    IF i > Len(runes) - 1 THEN runes
    ELSE IF IsUpper(runes[i][1]) /\ IsLower(runes[i + 1][1])
         THEN UpperToLowerFix(
                  [runes EXCEPT ![i + 1] = <<runes[i][Len(runes[i])]>> \o @,
                                ![i] = SubSeq(@, 1, Len(@) - 1)],
                  i + 1)
         ELSE UpperToLowerFix(runes, i + 1)

\* camelcase.Split
CamelcaseSplit(src) ==
    SelectSeq(UpperToLowerFix(ClassRuns(src, <<>>), 1), LAMBDA e : e # <<>>)

\* the nested loops of casee's field splitting, innermost first
MapSeq(Op(_), ss) == [i \in DOMAIN ss |-> Op(ss[i])]

\* variant: only the first character of a part is lowered
LowerCamelParts_FirstOnly(sh) ==
    MapSeq(LAMBDA e : <<ToLowerChar(e[1])>> \o Tail(e), CamelcaseSplit(sh))

LowerCamelParts(sh) == MapSeq(ToLower, CamelcaseSplit(sh))

HyphenParts(su) == Flatten(MapSeq(LowerCamelParts, StringsSplit(su, "-")))

UnderscoreParts(sf) == Flatten(MapSeq(HyphenParts, StringsSplit(sf, "_")))

SplitToLowerFields(s) == Flatten(MapSeq(UnderscoreParts, StringsFields(s)))

\* casee.ToSnakeCase
ToSnakeCase(s) ==
    IF Len(s) = 0 THEN s ELSE StringsJoin(SplitToLowerFields(s), <<"_">>)

(***************************************************************************)
(* applyJitter: the set of values one call can return.  The float product  *)
(* 0.25 * input is exact for the inputs used, and int() truncates it.  The *)
(* set is empty when rand.Intn is called with 0 and aborts.                *)
(***************************************************************************)
\* variant: the quarter rounded to the nearest integer, halves upwards
JitterDeviation_Rounded(input) == (input + 2) \div 4

\* int(0.25 * float64(input)), input >= 0
JitterDeviation(input) == input \div 4

\* variant: r.Intn(0) returns 0
Intn_ZeroForNone(n) == IF n <= 0 THEN {0} ELSE 0 .. (n - 1)

\* r.Intn(n): a value of 0..n-1; aborts for n <= 0
Intn(n) == 0 .. (n - 1)

\* variant: the random addend reaches 2*deviation
applyJitter_Inclusive(input) ==
    LET deviation == JitterDeviation(input)
    IN  {input - deviation + k : k \in Intn(2 * deviation + 1)}

applyJitter(input) ==
    LET deviation == JitterDeviation(input)
    IN  {input - deviation + k : k \in Intn(2 * deviation)}

(***************************************************************************)
(* String constants of the source.                                         *)
(***************************************************************************)
\* "estafette_gcloud_global_quota_limit" and its three siblings
GlobalQuotaLimitName == <<"e","s","t","a","f","e","t","t","e","_","g","c","l","o","u","d","_","g","l","o","b","a","l","_","q","u","o","t","a","_","l","i","m","i","t">>

GlobalQuotaUsageName == <<"e","s","t","a","f","e","t","t","e","_","g","c","l","o","u","d","_","g","l","o","b","a","l","_","q","u","o","t","a","_","u","s","a","g","e">>

RegionalQuotaLimitName == <<"e","s","t","a","f","e","t","t","e","_","g","c","l","o","u","d","_","r","e","g","i","o","n","a","l","_","q","u","o","t","a","_","l","i","m","i","t">>

RegionalQuotaUsageName == <<"e","s","t","a","f","e","t","t","e","_","g","c","l","o","u","d","_","r","e","g","i","o","n","a","l","_","q","u","o","t","a","_","u","s","a","g","e">>

\* prefix := "estafette_gcloud_quota_"
QuotaPrefix == <<"e","s","t","a","f","e","t","t","e","_","g","c","l","o","u","d","_","q","u","o","t","a","_">>

\* prefix += "global_"
GlobalInfix == <<"g","l","o","b","a","l","_">>

LimitSuffix == <<"_","l","i","m","i","t">>

UsageSuffix == <<"_","u","s","a","g","e">>

(***************************************************************************)
(* Inputs: the command line options and the quota lists the compute API    *)
(* can answer with.                                                        *)
(***************************************************************************)
\* the three entry points: main.go, unnamed/part_002, unnamed/part_003
Variants == {"main", "p002", "p003"}

\* the entry points with the four fixed gauge vectors
FixedGaugeVariants == {"main", "p002"}

\* the entry points that fetch once before they serve
FetchFirstVariants == {"p002", "p003"}

\* values of --google-compute-projects and --google-compute-regions
Options ==
    { [projects |-> <<"a",",","b">>, regions |-> <<"r">>],
      [projects |-> <<"a">>,         regions |-> <<"r",",","s">>],
      [projects |-> <<"a">>,         regions |-> <<>>] }

Quota(metric, limit, usage) == [Metric |-> metric, Limit |-> limit, Usage |-> usage]

M_CPUS == <<"C","P","U","S">>

M_Cpus == <<"C","p","u","s">>

M_GLOBAL_CPUS == <<"G","L","O","B","A","L","_","C","P","U","S">>

\* quota lists a Projects.Get answer can carry
ProjectResponses ==
    { <<Quota(M_CPUS, 100, 42)>>,
      <<Quota(M_CPUS, 100, 42), Quota(M_Cpus, 100, 50)>> }

\* quota lists a Regions.Get answer can carry
RegionResponses ==
    { <<Quota(M_CPUS, 100, 42)>>,
      <<Quota(M_GLOBAL_CPUS, 100, 42)>> }

\* number of fetch cycles the model follows
MaxCycles == 2

(***************************************************************************)
(* The gauge vectors of the Prometheus client: a registered vector has its *)
(* label names and one value per tuple of label values.                    *)
(***************************************************************************)
NoSeries == [t \in {} |-> 0]

NewGaugeVec(labels) == [labels |-> labels, series |-> NoSeries]

\* the registry after init() of main.go and part_002; empty in part_003
InitialGauges(v) ==
    IF v \in FixedGaugeVariants
    THEN (GlobalQuotaLimitName :> NewGaugeVec(<<"project", "metric">>))
      @@ (GlobalQuotaUsageName :> NewGaugeVec(<<"project", "metric">>))
      @@ (RegionalQuotaLimitName :> NewGaugeVec(<<"project", "region", "metric">>))
      @@ (RegionalQuotaUsageName :> NewGaugeVec(<<"project", "region", "metric">>))
    ELSE [n \in {} |-> NewGaugeVec(<<>>)]

\* the value of a series, 0 for a series not yet created
SeriesValue(vec, lvs) == IF lvs \in DOMAIN vec.series THEN vec.series[lvs] ELSE 0

\* WithLabelValues(lvs...) panics unless one value per label is given
CardinalityOK(vec, lvs) == Len(lvs) = Len(vec.labels)

\* variant: the written series replaces the series of the vector
GaugeSet_Fresh(vec, lvs, v) == [vec EXCEPT !.series = (lvs :> v)]

\* vec.WithLabelValues(lvs...).Set(v)
GaugeSet(vec, lvs, v) == [vec EXCEPT !.series = (lvs :> v) @@ @]

\* vec.WithLabelValues(lvs...).Add(v)
GaugeAdd(vec, lvs, v) == [vec EXCEPT !.series = (lvs :> (SeriesValue(vec, lvs) + v)) @@ @]

(***************************************************************************)
(* The publishers.  They work on a record st of the registry (gauges) with *)
(* the history the properties speak about: lastObs, the value most         *)
(* recently observed for a series; regCount, the MustRegister calls per    *)
(* gauge name; keyScopes, the request kinds ("global" for Projects.Get,    *)
(* "regional" for Regions.Get) whose observations used a gauge name;       *)
(* cycleSeries, the series written since fetchQuota was entered; panicked, *)
(* a WithLabelValues call with the wrong number of values.                 *)
(***************************************************************************)
\* the element of a one-element set: binds an intermediate result once
TheOne(S) == CHOOSE x \in S : TRUE

\* vec.WithLabelValues(lvs...).Set(v) or .Add(v) on the registered vector name
WriteGauge(st0, name, lvs, v, op) ==
    TheOne({ IF ~CardinalityOK(st.gauges[name], lvs)
             THEN [st EXCEPT !.panicked = TRUE,
                             !.keyScopes[name] = @ \cup {st.scope}]
             ELSE [st EXCEPT !.gauges[name] = IF op = "Set" THEN GaugeSet(@, lvs, v)
                                                             ELSE GaugeAdd(@, lvs, v),
                             !.keyScopes[name] = @ \cup {st.scope},
                             !.lastObs = (<<name, lvs>> :> v) @@ @,
                             !.cycleSeries = @ \cup {<<name, lvs>>}]
             : st \in {st0} })

\* variant: the new gauge goes into a fresh map, the earlier gauges are dropped
RegisterGauge_FreshMap(st0, name, labels) ==
    TheOne({ [st EXCEPT !.gauges = (name :> NewGaugeVec(labels)),
                        !.regCount = (name :> ((IF name \in DOMAIN @ THEN @[name] ELSE 0) + 1)) @@ @,
                        !.keyScopes = (name :> {}) @@ @]
             : st \in {st0} })

\* gauges[name] = prometheus.NewGaugeVec(..., labels); prometheus.MustRegister(gauges[name])
RegisterGauge(st0, name, labels) ==
    TheOne({ [st EXCEPT !.gauges = (name :> NewGaugeVec(labels)) @@ @,
                        !.regCount = (name :> ((IF name \in DOMAIN @ THEN @[name] ELSE 0) + 1)) @@ @,
                        !.keyScopes = (name :> {}) @@ @]
             : st \in {st0} })

\* one quota of updateGlobalQuota
SetGlobalQuota(st0, quota, project) ==
    TheOne({ IF s1.panicked THEN s1
             ELSE WriteGauge(s1, GlobalQuotaUsageName,
                             <<project, ToSnakeCase(quota.Metric)>>, quota.Usage, "Set")
             : s1 \in { WriteGauge(st0, GlobalQuotaLimitName,
                                   <<project, ToSnakeCase(quota.Metric)>>,
                                   quota.Limit, "Set") } })

\* updateGlobalQuota of main.go and part_002
RECURSIVE updateGlobalQuota(_, _, _)
updateGlobalQuota(st0, quotas, project) ==
    TheOne({ IF quotas = <<>> \/ st.panicked THEN st
             ELSE updateGlobalQuota(SetGlobalQuota(st, quotas[1], project),
                                    Tail(quotas), project)
             : st \in {st0} })

\* one quota of updateRegionalQuota
SetRegionalQuota(st0, quota, project, region) ==
    TheOne({ IF s1.panicked THEN s1
             ELSE WriteGauge(s1, RegionalQuotaUsageName,
                             <<project, region, ToSnakeCase(quota.Metric)>>,
                             quota.Usage, "Set")
             : s1 \in { WriteGauge(st0, RegionalQuotaLimitName,
                                   <<project, region, ToSnakeCase(quota.Metric)>>,
                                   quota.Limit, "Set") } })

\* updateRegionalQuota of main.go and part_002
RECURSIVE updateRegionalQuota(_, _, _, _)
updateRegionalQuota(st0, quotas, project, region) ==
    TheOne({ IF quotas = <<>> \/ st.panicked THEN st
             ELSE updateRegionalQuota(SetRegionalQuota(st, quotas[1], project, region),
                                      Tail(quotas), project, region)
             : st \in {st0} })

\* variant: no quota gets the global prefix
TimelinePrefix_ByScope(region) == QuotaPrefix

\* part_003: prefix and labels of a quota, by the region argument
TimelinePrefix(region) == IF region = <<>> THEN QuotaPrefix \o GlobalInfix ELSE QuotaPrefix

TimelineLabels(region) == IF region = <<>> THEN <<"project">> ELSE <<"project", "region">>

\* part_003: quotaLimitName and quotaUsageName
QuotaLimitName(metric, region) == TimelinePrefix(region) \o ToSnakeCase(metric) \o LimitSuffix

QuotaUsageName(metric, region) == TimelinePrefix(region) \o ToSnakeCase(metric) \o UsageSuffix

\* part_003: the label values handed to WithLabelValues
TimelineLabelValues(project, region) ==
    IF region = <<>> THEN <<project>> ELSE <<project, region>>

\* variant: the gauge is created and registered for every observation
UpsertTimeline_Always(st0, name0, region, project, v) ==
    TheOne({ WriteGauge(RegisterGauge(st, name, TimelineLabels(region)),
                        name, TimelineLabelValues(project, region), v, "Add")
             : st \in {st0}, name \in {name0} })

\* part_003: create and register the gauge unless the map has it, then Add
UpsertTimeline(st0, name0, region, project, v) ==
    TheOne({ WriteGauge(IF name \in DOMAIN st.gauges THEN st
                        ELSE RegisterGauge(st, name, TimelineLabels(region)),
                        name, TimelineLabelValues(project, region), v, "Add")
             : st \in {st0}, name \in {name0} })

\* variant: the limit gauge gets the usage and the usage gauge the limit
AddQuotaTimelines_Swapped(st0, quota, project, region) ==
    TheOne({ IF s1.panicked THEN s1
             ELSE UpsertTimeline(s1, QuotaUsageName(quota.Metric, region), region,
                                 project, quota.Limit)
             : s1 \in { UpsertTimeline(st0, QuotaLimitName(quota.Metric, region),
                                       region, project, quota.Usage) } })

\* part_003: one quota of updatePrometheusTimelinesFromQuota
AddQuotaTimelines(st0, quota, project, region) ==
    TheOne({ IF s1.panicked THEN s1
             ELSE UpsertTimeline(s1, QuotaUsageName(quota.Metric, region), region,
                                 project, quota.Usage)
             : s1 \in { UpsertTimeline(st0, QuotaLimitName(quota.Metric, region),
                                       region, project, quota.Limit) } })

\* updatePrometheusTimelinesFromQuota of part_003
RECURSIVE updatePrometheusTimelinesFromQuota(_, _, _, _)
updatePrometheusTimelinesFromQuota(st0, quotas, project, region) ==
    TheOne({ IF quotas = <<>> \/ st.panicked THEN st
             ELSE updatePrometheusTimelinesFromQuota(
                      AddQuotaTimelines(st, quotas[1], project, region),
                      Tail(quotas), project, region)
             : st \in {st0} })

\* the publisher call fetchQuota makes for the answer of one request;
\* region is None for the project request
None == <<"-">>

PublishResponse(v, st, quotas, project, region) ==
    IF v \in FixedGaugeVariants
    THEN IF region = None
         THEN updateGlobalQuota([st EXCEPT !.scope = "global"], quotas, project)
         ELSE updateRegionalQuota([st EXCEPT !.scope = "regional"], quotas, project, region)
    ELSE IF region = None
         THEN updatePrometheusTimelinesFromQuota([st EXCEPT !.scope = "global"],
                                                 quotas, project, <<>>)
         ELSE updatePrometheusTimelinesFromQuota([st EXCEPT !.scope = "regional"],
                                                 quotas, project, region)

(***************************************************************************)
(* The process: the main goroutine, the goroutine of the metrics listener, *)
(* the polling goroutine and, in main.go, the credentials file watcher.    *)
(***************************************************************************)
VARIABLES
    variant,        \* the entry point that runs
    projects,       \* strings.Split of the projects option
    regions,        \* strings.Split of the regions option
    mainPc,         \* position of func main
    servePc,        \* position of the goroutine that serves the metrics
    pollPc,         \* position of the polling goroutine
    watching,       \* main.go: the credentials file watcher is installed
    computeService, \* main.go: the variable the watcher callback reassigns
    fq,             \* per goroutine, the position of its fetchQuota call
    gauges,         \* the registered gauge vectors with their series
    lastObs,        \* history: value most recently observed per series
    regCount,       \* history: MustRegister calls per gauge name
    keyScopes,      \* history: request kinds that used a gauge name
    cycles,         \* fetchQuota calls started
    cyclesDone,     \* fetchQuota calls returned
    requests,       \* requests issued in the current fetchQuota call
    firstCycleLog,  \* history: answers published by the first fetchQuota
                    \* call, kept until the second call starts
    cycleSeries,    \* history: series written by the current fetchQuota call
    failed,         \* a request of fetchQuota returned an error
    shutdown,       \* main received SIGTERM or SIGINT
    exited,         \* the process has ended
    exitCode,       \* with this code
    exitCause,      \* and for this reason
    jitterCall,     \* the applyJitter call under examination
    snakeCall       \* the casee.ToSnakeCase calls under examination

vars == <<variant, projects, regions, mainPc, servePc, pollPc, watching,
          computeService, fq, gauges, lastObs, regCount, keyScopes, cycles,
          cyclesDone, requests, firstCycleLog, cycleSeries, failed, shutdown,
          exited, exitCode, exitCause, jitterCall, snakeCall>>

configVars == <<variant, projects, regions, jitterCall, snakeCall>>

pubVars == <<gauges, lastObs, regCount, keyScopes>>

cycleVars == <<cycles, cyclesDone, requests, firstCycleLog, cycleSeries>>

exitVars == <<exited, exitCode, exitCause>>

Tasks == {"main", "poll"}

IdleFetch == [pc |-> "idle", pi |-> 0, ri |-> 0, svc |-> "ok"]

\* os.Exit(code) as the last step of log.Fatal, a return of main, or a panic
ExitWith(code, cause) ==
    /\ exited' = TRUE
    /\ exitCode' = code
    /\ exitCause' = cause

\* an applyJitter call that has not been made
NoJitterCall == [input |-> 0, state |-> "none", deviation |-> 0, output |-> 0]

ProcessInit ==
    /\ variant \in Variants
    /\ \E o \in Options :
          /\ projects = StringsSplit(o.projects, ",")
          /\ regions = StringsSplit(o.regions, ",")
    /\ mainPc = IF variant = "main" THEN "init" ELSE "client"
    /\ servePc = "none"
    /\ pollPc = "none"
    /\ watching = FALSE
    /\ computeService = "ok"
    /\ fq = [t \in Tasks |-> IdleFetch]
    /\ gauges = InitialGauges(variant)
    /\ lastObs = [k \in {} |-> 0]
    /\ regCount = [n \in DOMAIN gauges |-> 1]
    /\ keyScopes = [n \in DOMAIN gauges |-> {}]
    /\ cycles = 0
    /\ cyclesDone = 0
    /\ requests = <<>>
    /\ firstCycleLog = <<>>
    /\ cycleSeries = {}
    /\ failed = FALSE
    /\ shutdown = FALSE
    /\ exited = FALSE
    /\ exitCode = 0
    /\ exitCause = "none"

\* a casee.ToSnakeCase call that has not been made
NoSnakeCall == [input |-> <<>>, state |-> "none", once |-> <<>>, again |-> <<>>,
                twice |-> <<>>]

Init ==
    /\ ProcessInit
    /\ jitterCall = NoJitterCall
    /\ snakeCall = NoSnakeCall

(***************************************************************************)
(* func main                                                               *)
(***************************************************************************)
\* variant: the listener is not started here
InitMetrics_NoListener ==
    /\ ~exited /\ variant = "main" /\ mainPc = "init"
    /\ mainPc' = "client"
    /\ UNCHANGED <<configVars, servePc, pollPc, watching, computeService, fq,
                   pubVars, cycleVars, failed, shutdown, exitVars>>

\* main.go: foundation.InitLiveness(); foundation.InitMetrics() starts the
\* goroutine that listens and serves the metrics
InitMetrics ==
    /\ ~exited /\ variant = "main" /\ mainPc = "init"
    /\ servePc' = "listening"
    /\ mainPc' = "client"
    /\ UNCHANGED <<configVars, pollPc, watching, computeService, fq, pubVars,
                   cycleVars, failed, shutdown, exitVars>>

\* google.DefaultClient at startup
CreateClient ==
    /\ ~exited /\ mainPc = "client"
    /\ \E err \in BOOLEAN :
          IF err
          THEN /\ ExitWith(1, "client")
               /\ UNCHANGED mainPc
          ELSE /\ mainPc' = "service"
               /\ UNCHANGED exitVars
    /\ UNCHANGED <<configVars, servePc, pollPc, watching, computeService, fq,
                   pubVars, cycleVars, failed, shutdown>>

\* compute.New at startup
CreateService ==
    /\ ~exited /\ mainPc = "service"
    /\ \E err \in BOOLEAN :
          IF err
          THEN /\ ExitWith(1, "client")
               /\ UNCHANGED mainPc
          ELSE /\ mainPc' = IF variant = "main" THEN "watch" ELSE "fetch"
               /\ UNCHANGED exitVars
    /\ UNCHANGED <<configVars, servePc, pollPc, watching, computeService, fq,
                   pubVars, cycleVars, failed, shutdown>>

\* main.go: foundation.WatchForFileChanges installs the callback
WatchForFileChanges ==
    /\ ~exited /\ variant = "main" /\ mainPc = "watch"
    /\ watching' = TRUE
    /\ mainPc' = "spawn"
    /\ UNCHANGED <<configVars, servePc, pollPc, computeService, fq, pubVars,
                   cycleVars, failed, shutdown, exitVars>>

\* main.go: the callback of the file watcher; the error of compute.New is
\* dropped and its result assigned
WatchCallback ==
    /\ ~exited /\ watching
    /\ \E clientErr \in BOOLEAN, serviceErr \in BOOLEAN :
          IF clientErr
          THEN /\ ExitWith(1, "client")
               /\ UNCHANGED computeService
          ELSE /\ computeService' = IF serviceErr THEN "nil" ELSE "ok"
               /\ UNCHANGED exitVars
    /\ UNCHANGED <<configVars, mainPc, servePc, pollPc, watching, fq, pubVars,
                   cycleVars, failed, shutdown>>

\* entering fetchQuota(ctx, computeService, projects, regions)
BeginFetch(t) ==
    /\ cycles < MaxCycles
    /\ fq' = [fq EXCEPT ![t] = [pc |-> "request", pi |-> 1, ri |-> 0,
                                svc |-> computeService]]
    /\ cycles' = cycles + 1
    /\ requests' = <<>>
    /\ firstCycleLog' = <<>>
    /\ cycleSeries' = {}
    /\ UNCHANGED cyclesDone

\* part_002, part_003: fetch once, before setting up the prometheus handler
InitialFetch ==
    /\ ~exited /\ variant \in FetchFirstVariants /\ mainPc = "fetch"
    /\ BeginFetch("main")
    /\ mainPc' = "fetching"
    /\ UNCHANGED <<configVars, servePc, pollPc, watching, computeService,
                   pubVars, failed, shutdown, exitVars>>

\* variant: the listener is started before the initial fetchQuota call
StartPrometheus_BeforeFetch ==
    /\ ~exited /\ variant \in FetchFirstVariants
    /\ \/ /\ mainPc = "fetch" /\ servePc = "none"
          /\ servePc' = "listening"
          /\ UNCHANGED mainPc
       \/ /\ mainPc = "serve"
          /\ mainPc' = "spawn"
          /\ UNCHANGED servePc
    /\ UNCHANGED <<configVars, pollPc, watching, computeService, fq, pubVars,
                   cycleVars, failed, shutdown, exitVars>>

\* part_002, part_003: go func() { ... http.ListenAndServe ... }()
StartPrometheus ==
    /\ ~exited /\ variant \in FetchFirstVariants /\ mainPc = "serve"
    /\ servePc' = "listening"
    /\ mainPc' = "spawn"
    /\ UNCHANGED <<configVars, pollPc, watching, computeService, fq, pubVars,
                   cycleVars, failed, shutdown, exitVars>>

\* variant: part_002 and part_003 start the loop before the initial
\* fetchQuota call, and the loop fetches at once
StartPolling_BeforeFetch ==
    /\ ~exited
    /\ \/ /\ mainPc = "spawn"
          /\ pollPc' = IF variant = "main" THEN "fetch" ELSE pollPc
          /\ mainPc' = "waitSignal"
       \/ /\ variant \in FetchFirstVariants /\ mainPc = "fetch" /\ pollPc = "none"
          /\ pollPc' = "fetch"
          /\ UNCHANGED mainPc
    /\ UNCHANGED <<configVars, servePc, watching, computeService, fq, pubVars,
                   cycleVars, failed, shutdown, exitVars>>

\* go func(waitGroup *sync.WaitGroup) { for { ... } }(waitGroup)
StartPolling ==
    /\ ~exited /\ mainPc = "spawn"
    /\ pollPc' = IF variant = "main" THEN "fetch" ELSE "sleep"
    /\ mainPc' = "waitSignal"
    /\ UNCHANGED <<configVars, servePc, watching, computeService, fq, pubVars,
                   cycleVars, failed, shutdown, exitVars>>

\* signalReceived := <-gracefulShutdown
ReceiveSignal ==
    /\ ~exited /\ mainPc = "waitSignal"
    /\ shutdown' = TRUE
    /\ mainPc' = "wgWait"
    /\ UNCHANGED <<configVars, servePc, pollPc, watching, computeService, fq,
                   pubVars, cycleVars, failed, exitVars>>

\* the counter of the wait group: no goroutine calls waitGroup.Add
WaitGroupCounter == 0

\* waitGroup.Wait() returns when the counter is 0; main returns
WaitAndReturn ==
    /\ ~exited /\ mainPc = "wgWait"
    /\ WaitGroupCounter = 0
    /\ mainPc' = "returned"
    /\ ExitWith(0, "signal")
    /\ UNCHANGED <<configVars, servePc, pollPc, watching, computeService, fq,
                   pubVars, cycleVars, failed, shutdown>>

(***************************************************************************)
(* The goroutine that serves the metrics                                   *)
(***************************************************************************)
\* http.ListenAndServe returns an error: log.Fatal
ListenFail ==
    /\ ~exited /\ servePc = "listening"
    /\ ExitWith(1, "listen")
    /\ UNCHANGED <<configVars, mainPc, servePc, pollPc, watching,
                   computeService, fq, pubVars, cycleVars, failed, shutdown>>

(***************************************************************************)
(* The polling goroutine: main.go fetches and then sleeps, part_002 and    *)
(* part_003 sleep and then fetch.                                          *)
(***************************************************************************)
\* the base interval of the loop
SleepBase == 60

\* the call of fetchQuota in the loop
PollFetch ==
    /\ ~exited /\ pollPc = "fetch"
    /\ BeginFetch("poll")
    /\ pollPc' = "fetching"
    /\ UNCHANGED <<configVars, mainPc, servePc, watching, computeService,
                   pubVars, failed, shutdown, exitVars>>

\* sleepTime := applyJitter(60); time.Sleep(...) begins
Sleep ==
    /\ ~exited /\ pollPc = "sleep"
    /\ IF applyJitter(SleepBase) = {}
       THEN /\ ExitWith(2, "panic")
            /\ UNCHANGED pollPc
       ELSE /\ \E sleepTime \in applyJitter(SleepBase) : pollPc' = "sleeping"
            /\ UNCHANGED exitVars
    /\ UNCHANGED <<configVars, mainPc, servePc, watching, computeService, fq,
                   pubVars, cycleVars, failed, shutdown>>

\* time.Sleep returns
Wake ==
    /\ ~exited /\ pollPc = "sleeping"
    /\ pollPc' = "fetch"
    /\ UNCHANGED <<configVars, mainPc, servePc, watching, computeService, fq,
                   pubVars, cycleVars, failed, shutdown, exitVars>>

(***************************************************************************)
(* fetchQuota, run by goroutine t                                          *)
(***************************************************************************)
\* the project of the request at hand, and its region (None: Projects.Get)
CurrentProject(t) == projects[fq[t].pi]

\* variant: the regions are taken from the last to the first
CurrentRegion_Reversed(t) ==
    IF fq[t].ri = 0 THEN None ELSE regions[Len(regions) + 1 - fq[t].ri]

CurrentRegion(t) == IF fq[t].ri = 0 THEN None ELSE regions[fq[t].ri]

\* computeService.Projects.Get(project)...Do() or
\* computeService.Regions.Get(project, region)...Do() is sent; a nil service
\* is dereferenced
IssueRequest(t) ==
    /\ ~exited /\ fq[t].pc = "request"
    /\ IF fq[t].svc = "nil"
       THEN /\ ExitWith(2, "panic")
            /\ UNCHANGED <<fq, requests>>
       ELSE /\ requests' = Append(requests, <<CurrentProject(t), CurrentRegion(t)>>)
            /\ fq' = [fq EXCEPT ![t].pc = "await"]
            /\ UNCHANGED exitVars
    /\ UNCHANGED <<configVars, mainPc, servePc, pollPc, watching,
                   computeService, pubVars, cycles, cyclesDone, firstCycleLog,
                   cycleSeries, failed, shutdown>>

\* the loops of fetchQuota: the regions of the project, then the next project
LastRequest(t) == fq[t].ri = Len(regions) /\ fq[t].pi = Len(projects)

NextRequest(c) ==
    IF c.ri < Len(regions) THEN [c EXCEPT !.pc = "request", !.ri = c.ri + 1]
    ELSE [c EXCEPT !.pc = "request", !.pi = c.pi + 1, !.ri = 0]

\* fetchQuota returns to its caller
ReturnFromFetch(t) ==
    /\ fq' = [fq EXCEPT ![t] = IdleFetch]
    /\ cyclesDone' = cyclesDone + 1
    /\ IF t = "main"
       THEN mainPc' = "serve" /\ UNCHANGED pollPc
       ELSE pollPc' = "sleep" /\ UNCHANGED mainPc

\* the request succeeds and its quotas are published; a panic of the
\* publisher ends the process
ResponseOk(t) ==
    /\ ~exited /\ fq[t].pc = "await"
    /\ \E quotas \in (IF fq[t].ri = 0 THEN ProjectResponses ELSE RegionResponses) :
          LET st0 == [gauges |-> gauges, lastObs |-> lastObs, regCount |-> regCount,
                      keyScopes |-> keyScopes, cycleSeries |-> cycleSeries,
                      scope |-> "global", panicked |-> FALSE]
              st1 == PublishResponse(variant, st0, quotas, CurrentProject(t),
                                     CurrentRegion(t))
          IN  /\ gauges' = st1.gauges
              /\ lastObs' = st1.lastObs
              /\ regCount' = st1.regCount
              /\ keyScopes' = st1.keyScopes
              /\ cycleSeries' = st1.cycleSeries
              /\ IF st1.panicked
                 THEN /\ ExitWith(2, "panic")
                      /\ UNCHANGED <<fq, cyclesDone, firstCycleLog, mainPc, pollPc>>
                 ELSE /\ firstCycleLog' =
                             IF cycles = 1
                             THEN Append(firstCycleLog,
                                         [quotas |-> quotas,
                                          project |-> CurrentProject(t),
                                          region |-> CurrentRegion(t)])
                             ELSE firstCycleLog
                      /\ UNCHANGED exitVars
                      /\ IF LastRequest(t)
                         THEN ReturnFromFetch(t)
                         ELSE /\ fq' = [fq EXCEPT ![t] = NextRequest(@)]
                              /\ UNCHANGED <<cyclesDone, mainPc, pollPc>>
    /\ UNCHANGED <<configVars, servePc, watching, computeService, cycles,
                   requests, failed, shutdown>>

\* variant: the error is logged and the loops go on with the next request
ResponseErr_Skip(t) ==
    /\ ~exited /\ fq[t].pc = "await"
    /\ failed' = TRUE
    /\ IF LastRequest(t)
       THEN ReturnFromFetch(t)
       ELSE /\ fq' = [fq EXCEPT ![t] = NextRequest(@)]
            /\ UNCHANGED <<cyclesDone, mainPc, pollPc>>
    /\ UNCHANGED <<configVars, servePc, watching, computeService, pubVars,
                   cycles, requests, firstCycleLog, cycleSeries, shutdown,
                   exitVars>>

\* variant: the error withdraws the series written by this fetchQuota call
ResponseErr_Rollback(t) ==
    /\ ~exited /\ fq[t].pc = "await"
    /\ failed' = TRUE
    /\ fq' = [fq EXCEPT ![t].pc = "fatal"]
    /\ gauges' = [n \in DOMAIN gauges |->
                     [gauges[n] EXCEPT !.series =
                         [lvs \in {l \in DOMAIN @ : <<n, l>> \notin cycleSeries} |-> @[lvs]]]]
    /\ UNCHANGED <<configVars, mainPc, servePc, pollPc, watching,
                   computeService, lastObs, regCount, keyScopes, cycleVars,
                   shutdown, exitVars>>

\* the request returns an error
ResponseErr(t) ==
    /\ ~exited /\ fq[t].pc = "await"
    /\ failed' = TRUE
    /\ fq' = [fq EXCEPT ![t].pc = "fatal"]
    /\ UNCHANGED <<configVars, mainPc, servePc, pollPc, watching,
                   computeService, pubVars, cycleVars, shutdown,
                   exitVars>>

\* variant: the failed request is logged and the process ends with code 0
FetchFatal_ExitZero(t) ==
    /\ ~exited /\ fq[t].pc = "fatal"
    /\ ExitWith(0, "fetch")
    /\ UNCHANGED <<configVars, mainPc, servePc, pollPc, watching,
                   computeService, fq, pubVars, cycleVars, failed, shutdown>>

\* log.Fatal().Err(err).Msgf("Retrieving ... failed")
FetchFatal(t) ==
    /\ ~exited /\ fq[t].pc = "fatal"
    /\ ExitWith(1, "fetch")
    /\ UNCHANGED <<configVars, mainPc, servePc, pollPc, watching,
                   computeService, fq, pubVars, cycleVars, failed, shutdown>>

Next ==
    \/ InitMetrics
    \/ CreateClient
    \/ CreateService
    \/ WatchForFileChanges
    \/ WatchCallback
    \/ InitialFetch
    \/ StartPrometheus
    \/ StartPolling
    \/ ReceiveSignal
    \/ WaitAndReturn
    \/ ListenFail
    \/ PollFetch
    \/ Sleep
    \/ Wake
    \/ \E t \in Tasks : IssueRequest(t)
    \/ \E t \in Tasks : ResponseOk(t)
    \/ \E t \in Tasks : ResponseErr(t)
    \/ \E t \in Tasks : FetchFatal(t)

Spec == Init /\ [][Next]_vars

(***************************************************************************)
(* The same process with the scheduling of the Go runtime: a goroutine     *)
(* that can take its next step takes it, a sleep ends, and a request that  *)
(* was sent is answered, with quotas or with an error.                     *)
(***************************************************************************)
PollFairness ==
    /\ WF_vars(PollFetch)
    /\ WF_vars(Sleep)
    /\ WF_vars(Wake)
    /\ WF_vars(IssueRequest("poll"))
    /\ WF_vars(ResponseErr("poll") \/ ResponseOk("poll"))
    /\ WF_vars(FetchFatal("poll"))

SpecFair == Init /\ [][Next]_vars /\ PollFairness

(***************************************************************************)
(* applyJitter on its own: the call is made with each base interval of the *)
(* scheduler and with the small inputs, and its steps are recorded.        *)
(***************************************************************************)
\* the base intervals of the scheduler
ScheduleBases == {30, 60, 300}

\* the small inputs go up to here
MaxJitterInput == 8

JitterInputs == ScheduleBases \cup (0 .. MaxJitterInput)

JitterInit ==
    /\ ProcessInit
    /\ variant = "main"
    /\ Len(projects) = 1 /\ Len(regions) = 1
    /\ \E input \in JitterInputs :
          jitterCall = [NoJitterCall EXCEPT !.input = input, !.state = "called"]
    /\ snakeCall = NoSnakeCall

\* deviation := int(0.25 * float64(input)); r.Intn(2*deviation) returns k
JitterReturn ==
    /\ jitterCall.state = "called"
    /\ \E output \in applyJitter(jitterCall.input) :
          jitterCall' = [jitterCall EXCEPT !.state = "returned",
                                           !.deviation = JitterDeviation(jitterCall.input),
                                           !.output = output]
    /\ UNCHANGED <<variant, projects, regions, snakeCall, mainPc, servePc, pollPc,
                   watching, computeService, fq, pubVars, cycleVars, failed,
                   shutdown, exitVars>>

\* r.Intn(2*deviation) panics: the argument is not positive
JitterPanic ==
    /\ jitterCall.state = "called"
    /\ applyJitter(jitterCall.input) = {}
    /\ jitterCall' = [jitterCall EXCEPT !.state = "panicked",
                                        !.deviation = JitterDeviation(jitterCall.input)]
    /\ UNCHANGED <<variant, projects, regions, snakeCall, mainPc, servePc, pollPc,
                   watching, computeService, fq, pubVars, cycleVars, failed,
                   shutdown, exitVars>>

JitterNext == JitterReturn \/ JitterPanic

SpecJitter == JitterInit /\ [][JitterNext]_vars

(***************************************************************************)
(* casee.ToSnakeCase on its own: the publishers hand it the metric name of *)
(* a quota; here it is called with every short string over a few           *)
(* characters of each kind, and then once more with its own result.        *)
(***************************************************************************)
\* an upper-case and a lower-case letter, a digit, the three separators of
\* casee and a character of no class
MetricChars == {"A", "b", "1", "_", "-", " ", "."}

\* the metric names go up to this length
MaxMetricLen == 3

MetricStrings == UNION { [1 .. n -> MetricChars] : n \in 0 .. MaxMetricLen }

SnakeInit ==
    /\ ProcessInit
    /\ variant = "main"
    /\ Len(projects) = 1 /\ Len(regions) = 1
    /\ jitterCall = NoJitterCall
    /\ \E m \in MetricStrings :
          snakeCall = [NoSnakeCall EXCEPT !.input = m, !.state = "called"]

\* metricName := casee.ToSnakeCase(quota.Metric)
Canonicalize ==
    /\ snakeCall.state = "called"
    /\ snakeCall' = [snakeCall EXCEPT !.state = "once",
                                      !.once = ToSnakeCase(snakeCall.input)]
    /\ UNCHANGED <<variant, projects, regions, jitterCall, mainPc, servePc, pollPc,
                   watching, computeService, fq, pubVars, cycleVars, failed,
                   shutdown, exitVars>>

\* the same call for a later quota with the same metric name, and the call
\* with the first result as the metric name
Recanonicalize ==
    /\ snakeCall.state = "once"
    /\ snakeCall' = [snakeCall EXCEPT !.state = "twice",
                                      !.again = ToSnakeCase(snakeCall.input),
                                      !.twice = ToSnakeCase(snakeCall.once)]
    /\ UNCHANGED <<variant, projects, regions, jitterCall, mainPc, servePc, pollPc,
                   watching, computeService, fq, pubVars, cycleVars, failed,
                   shutdown, exitVars>>

SnakeNext == Canonicalize \/ Recanonicalize

SpecSnake == SnakeInit /\ [][SnakeNext]_vars

(***************************************************************************)
(* Properties                                                              *)
(***************************************************************************)
\* no fetchQuota call is under way
NoFetchRunning == \A t \in Tasks : fq[t].pc = "idle"

\* the requests of one fetchQuota call
RequestsPerCycle == Len(projects) * (1 + Len(regions))

\* the series k = <<gauge name, label values>> is exposed to a scrape
SeriesVisible(k) == k[1] \in DOMAIN gauges /\ k[2] \in DOMAIN gauges[k[1]].series

SeriesOf(k) == gauges[k[1]].series[k[2]]

\* s ends with suffix
EndsWith(s, suffix) ==
    /\ Len(s) >= Len(suffix)
    /\ SubSeq(s, Len(s) - Len(suffix) + 1, Len(s)) = suffix

\* the observations of the first fetchQuota call in the order of publishing
FirstCycleObs ==
    Flatten(MapSeq(LAMBDA e : [i \in DOMAIN e.quotas |->
                                  [q |-> e.quotas[i], project |-> e.project,
                                   region |-> e.region]],
                   firstCycleLog))

\* the first fetchQuota call has returned and the second has not started
AfterFirstCycle == cycles = 1 /\ cyclesDone = 1

RECURSIVE SumSeq(_)
SumSeq(ns) == IF ns = <<>> THEN 0 ELSE ns[1] + SumSeq(Tail(ns))

\* C1: after completed fetch cycles every published value of a gauge equals
\* the limit or usage of the most recent observation for its label tuple,
\* in every publisher (claim as stated; part_003 adds instead).
C1_LastWriteWins ==
    (NoFetchRunning /\ cyclesDone >= 1) =>
        \A n \in DOMAIN gauges : \A lvs \in DOMAIN gauges[n].series :
            gauges[n].series[lvs] = lastObs[<<n, lvs>>]

\* C2: the process never exits gracefully (after a shutdown signal) while a
\* fetchQuota call of the polling goroutine has started and not finished
\* (claim as stated; nothing adds to the wait group).
C2_ExitAfterCycle ==
    (exited /\ exitCause = "signal") => fq["poll"].pc = "idle"

\* C3: once the shutdown signal has been received no fetchQuota call begins
\* (claim as stated; the loop never looks at the signal).
C3_NoCycleAfterSignal == [][shutdown => cycles' = cycles]_vars

\* C4: after the first failing request of fetchQuota no further request is
\* issued, no gauge is written, and no later cycle or sleep begins.
C4_FailureStopsFetching ==
    [][failed => /\ requests' = requests
                 /\ gauges' = gauges
                 /\ cycles' = cycles
                 /\ cyclesDone' = cyclesDone
                 /\ pollPc' = pollPc]_vars

\* C4 witness: the process has ended on a failed request that was not the
\* last of its cycle, after series had been written in that cycle.
C4_Witness ==
    /\ failed /\ exited /\ exitCause = "fetch"
    /\ Len(requests) < RequestsPerCycle
    /\ cycleSeries # {}

\* C5 as stated: when a request of a cycle fails, none of the observations
\* published earlier in that cycle is visible in the gauges.
C5_NoPartialPublishing ==
    failed => \A k \in cycleSeries : ~SeriesVisible(k)

\* C5 amended: publishing is incremental; when a request of a cycle fails,
\* every series written earlier in that cycle is still exposed, with the
\* value observed in this cycle (fixed gauges) or a sum containing it
\* (part_003).
C5_PublishedStaysVisible ==
    failed => \A k \in cycleSeries :
                  /\ SeriesVisible(k)
                  /\ IF variant \in FixedGaugeVariants
                     THEN SeriesOf(k) = lastObs[k]
                     ELSE SeriesOf(k) >= lastObs[k]

\* C5 witness: a request failed after series were written in its cycle,
\* while the process is alive and the listener serves.
C5_Witness ==
    failed /\ ~exited /\ servePc = "listening" /\ cycleSeries # {}

RegionArgument(o) == IF o.region = None THEN <<>> ELSE o.region

\* part_003: the first-cycle observations added to the series of observation o
AddedTo(o) ==
    SelectSeq(FirstCycleObs,
              LAMBDA x : /\ ToSnakeCase(x.q.Metric) = ToSnakeCase(o.q.Metric)
                         /\ TimelinePrefix(RegionArgument(x)) = TimelinePrefix(RegionArgument(o))
                         /\ x.project = o.project
                         /\ RegionArgument(x) = RegionArgument(o))

\* fixed gauges: the last first-cycle global observation of o's series
LastGlobal(o) ==
    LET same == SelectSeq(FirstCycleObs,
                          LAMBDA x : /\ x.region = None
                                     /\ x.project = o.project
                                     /\ ToSnakeCase(x.q.Metric) = ToSnakeCase(o.q.Metric))
    IN  same[Len(same)]

\* "estafette_gcloud_quota_global_cpus_limit" and "..._usage"
GlobalCpusLimitName == <<"e","s","t","a","f","e","t","t","e","_","g","c","l","o","u","d","_","q","u","o","t","a","_","g","l","o","b","a","l","_","c","p","u","s","_","l","i","m","i","t">>

GlobalCpusUsageName == <<"e","s","t","a","f","e","t","t","e","_","g","c","l","o","u","d","_","q","u","o","t","a","_","g","l","o","b","a","l","_","c","p","u","s","_","u","s","a","g","e">>

C7_NoScopeCollision ==
    \A n \in DOMAIN keyScopes : Cardinality(keyScopes[n]) <= 1

\* C8: for each base interval 30, 60 and 300 every value applyJitter returns
\* lies in [0.75*base, 1.25*base).
C8_JitterRange ==
    (jitterCall.state = "returned" /\ jitterCall.input \in ScheduleBases) =>
        /\ 4 * jitterCall.output >= 3 * jitterCall.input
        /\ 4 * jitterCall.output < 5 * jitterCall.input

\* C8 witness: applyJitter(60) has returned 45, the lower end 0.75*60.
C8_Witness ==
    jitterCall.state = "returned" /\ jitterCall.input = 60 /\ jitterCall.output = 45

\* round(0.25 * input), halves away from zero
RoundQuarter(input) == (input + 2) \div 4

C10_ServeAfterFirstCycle ==
    servePc = "listening" => cyclesDone >= 1

\* C10 amended: in part_002 and part_003 the metrics are served only after
\* the initial fetchQuota call has returned, having published an answer for
\* every project and every project and region; main.go starts to serve
\* before its first cycle.
C10_FetchFirstServeAfterCycle ==
    (variant \in FetchFirstVariants /\ servePc = "listening") =>
        /\ cyclesDone >= 1
        /\ cycles = 1 => Len(firstCycleLog) = RequestsPerCycle

\* C10 witness: part_003 serves, the polling goroutine not yet started.
C10_Witness ==
    variant = "p003" /\ servePc = "listening" /\ mainPc = "spawn" /\ ~exited

\* the gauge names the publisher of the running entry point derives from the
\* observation o
ObservationKeys(o) ==
    IF variant \in FixedGaugeVariants
    THEN IF o.region = None
         THEN {GlobalQuotaLimitName, GlobalQuotaUsageName}
         ELSE {RegionalQuotaLimitName, RegionalQuotaUsageName}
    ELSE {QuotaLimitName(o.q.Metric, RegionArgument(o)),
          QuotaUsageName(o.q.Metric, RegionArgument(o))}

\* every gauge of the registry has been used for an observation, and every
\* name derived from a published observation of the first cycle is registered
RegisteredIffObserved ==
    /\ \A n \in DOMAIN gauges : keyScopes[n] # {}
    /\ (cycles = 1 =>
           \A i \in DOMAIN FirstCycleObs :
               ObservationKeys(FirstCycleObs[i]) \subseteq DOMAIN gauges)

\* a step keeps every gauge of the registry, with its labels and its series
RegistryKept ==
    \A n \in DOMAIN gauges :
        /\ n \in DOMAIN gauges'
        /\ gauges'[n].labels = gauges[n].labels
        /\ DOMAIN gauges[n].series \subseteq DOMAIN gauges'[n].series

\* C11 as stated, its first half: in every state a gauge is in the registry
\* if and only if its name was derived from an earlier observation,
\* whichever entry point runs.
C11_RegistryIffObserved == RegisteredIffObserved

\* C11 amended: no step removes or replaces a registered gauge; in part_003
\* a gauge is registered if and only if its name was derived from an earlier
\* observation, while main.go and part_002 hold exactly their four gauges
\* from initialization on, observed or not.
C11_RegistryOnlyGrows ==
    /\ [](IF variant \in FixedGaugeVariants
          THEN DOMAIN gauges = DOMAIN InitialGauges(variant)
          ELSE RegisteredIffObserved)
    /\ [][RegistryKept]_vars

\* C11 witness: part_003 is in its second cycle with the gauges of a project
\* observation and of a region observation registered, each with a series.
C11_Witness ==
    /\ variant = "p003" /\ cycles = 2
    /\ \E g \in DOMAIN gauges, r \in DOMAIN gauges :
          /\ keyScopes[g] = {"global"} /\ keyScopes[r] = {"regional"}
          /\ gauges[g].series # NoSeries /\ gauges[r].series # NoSeries

\* C12: MustRegister is called at most once for every gauge name, over all
\* cycles and observations, also when different upstream metric names
\* canonicalize to the same name.
C12_RegisteredOnce ==
    /\ DOMAIN regCount = DOMAIN gauges
    /\ \A n \in DOMAIN regCount : regCount[n] = 1

\* C12 witness: part_003 is in its second cycle and the gauge
\* estafette_gcloud_quota_global_cpus_limit, registered once, has had at
\* least three observations of project a added, so CPUS and Cpus both
\* reached it in one of the cycles.
C12_Witness ==
    /\ variant = "p003" /\ cycles = 2
    /\ GlobalCpusLimitName \in DOMAIN gauges
    /\ regCount[GlobalCpusLimitName] = 1
    /\ SeriesValue(gauges[GlobalCpusLimitName], <<(<<"a">>)>>) >= 300

\* the requests of a whole fetchQuota call: per project, the project and
\* then each of its regions, in the order of the options
ExpectedRequests ==
    Flatten(MapSeq(LAMBDA p : <<(<<p, None>>)>> \o MapSeq(LAMBDA r : <<p, r>>, regions),
                   projects))

IsPrefix(s, t) == Len(s) <= Len(t) /\ s = SubSeq(t, 1, Len(s))

\* C13: the requests of a fetchQuota call are, in order, a prefix of
\* p1, (p1,r1) .. (p1,rm), p2, (p2,r1) ..; the call that returns has issued
\* exactly that list; and (followed through the first call) every answer is
\* published, in the order of the requests, before the next request is
\* issued.
C13_RequestOrder ==
    /\ IsPrefix(requests, ExpectedRequests)
    /\ (NoFetchRunning /\ cycles >= 1 /\ cyclesDone = cycles =>
           requests = ExpectedRequests)
    /\ (cycles = 1 =>
           /\ \A i \in DOMAIN firstCycleLog :
                  <<firstCycleLog[i].project, firstCycleLog[i].region>> = requests[i]
           /\ \A t \in Tasks :
                  /\ fq[t].pc = "request" => Len(firstCycleLog) = Len(requests)
                  /\ fq[t].pc \in {"await", "fatal"} =>
                         Len(requests) = Len(firstCycleLog) + 1
           /\ cyclesDone = 1 => Len(firstCycleLog) = Len(requests))

\* C13 witness: a fetchQuota call over more than one project or region has
\* returned, no request having failed, with all its requests issued.
C13_Witness ==
    /\ AfterFirstCycle /\ NoFetchRunning /\ ~failed
    /\ Len(requests) = 3 /\ requests = ExpectedRequests
    /\ Len(firstCycleLog) = 3

\* the process has ended on an error of google.DefaultClient or compute.New
\* at startup (the file watcher is not installed yet)
StartupClientFailure ==
    exited /\ exitCause = "client" /\ mainPc \in {"client", "service"}

\* C14 as stated: when the construction of the client or of the compute
\* service fails at startup, the metrics endpoint has not been started.
C14_FailBeforeServing == StartupClientFailure => servePc = "none"

\* C14 amended: in part_002 and part_003 a startup failure of the client or
\* compute service ends the process before the metrics listener is started
\* and before any fetch; in main.go the listener has been started by then.
C14_FailBeforeServingFetchFirst ==
    StartupClientFailure =>
        /\ cycles = 0 /\ ~watching /\ pollPc = "none" /\ exitCode = 1
        /\ IF variant \in FetchFirstVariants
           THEN servePc = "none"
           ELSE servePc = "listening"

\* C14 witness: part_002 has ended because compute.New failed at startup.
C14_Witness ==
    StartupClientFailure /\ variant = "p002" /\ mainPc = "service"

\* the process has ended in a panic of the publisher: the answer at hand
\* was never published
PublisherPanicked ==
    exited /\ exitCause = "panic" /\ \E t \in Tasks : fq[t].pc = "await"

\* C15: whatever metric names the answers carry, the publisher never panics
\* or ends the process, and every published observation has a series in
\* the gauges derived from it (claim as stated; part_003 panics on a
\* regional metric whose name spells the global infix).
C15_NoMetricRejected ==
    /\ ~PublisherPanicked
    /\ (cycles = 1 =>
           \A i \in DOMAIN FirstCycleObs :
               \A n \in ObservationKeys(FirstCycleObs[i]) :
                   n \in DOMAIN gauges /\ gauges[n].series # NoSeries)

C17_SnakeIdempotent ==
    snakeCall.state = "twice" =>
        /\ snakeCall.again = snakeCall.once
        /\ snakeCall.twice = snakeCall.once

\* C17 witness: a metric name in camel case has been canonicalized twice;
\* the first call changed it and put in a separator.
C17_Witness ==
    /\ snakeCall.state = "twice"
    /\ snakeCall.input = <<"b", "A", "b">>
    /\ snakeCall.once = <<"b", "_", "a", "b">>

\* C18: a step leaves every series that the current fetchQuota call has not
\* written where it is, with the value it has; so a series no answer of a
\* cycle reports keeps its value through that cycle.
C18_UnobservedSeriesKept ==
    [][\A n \in DOMAIN gauges : \A lvs \in DOMAIN gauges[n].series :
           <<n, lvs>> \notin cycleSeries' =>
               /\ n \in DOMAIN gauges'
               /\ lvs \in DOMAIN gauges'[n].series
               /\ gauges'[n].series[lvs] = gauges[n].series[lvs]]_vars

\* C18 witness: the second fetchQuota call has returned without writing a
\* series that the first call wrote; the series shows its value of then.
C18_Witness ==
    /\ cyclesDone = 2 /\ NoFetchRunning /\ cycleSeries # {}
    /\ \E n \in DOMAIN gauges : \E lvs \in DOMAIN gauges[n].series :
          /\ <<n, lvs>> \notin cycleSeries
          /\ gauges[n].series[lvs] = lastObs[<<n, lvs>>]

\* C19: every failed construction of the client or of the compute service
\* ends the process, so a running process holds a usable compute service
\* and no fetchQuota call is made with one whose construction failed (claim
\* as stated; the watcher callback of main.go drops the error of
\* compute.New).
C19_NoErrorSuppressed ==
    /\ ~exited => computeService = "ok"
    /\ \A t \in Tasks : fq[t].pc # "idle" => fq[t].svc = "ok"

\* the goroutines inside fetchQuota
Fetchers == {t \in Tasks : fq[t].pc # "idle"}

\* the gauges and their history change only in the publishing step of the
\* one goroutine that is inside fetchQuota and has an answer at hand
WrittenByPublisher ==
    pubVars' # pubVars =>
        \E t \in Tasks :
            /\ Fetchers = {t}
            /\ fq[t].pc = "await"
            /\ t = "main" => pollPc = "none" /\ mainPc = "fetching"
            /\ t = "poll" => pollPc = "fetching" /\ mainPc \notin {"fetch", "fetching"}

\* C20: at most one goroutine is inside fetchQuota at any time, the initial
\* call of main included, and the gauges are written only by that
\* goroutine, in its publishing step.
C20_SingleWriter ==
    /\ [](Cardinality(Fetchers) <= 1)
    /\ [][WrittenByPublisher]_vars

\* C20 witness: in part_003 the polling goroutine is inside its fetchQuota
\* call, after the initial call of main has returned, and has written
\* series while the listener serves.
C20_Witness ==
    /\ variant = "p003" /\ cyclesDone = 1 /\ servePc = "listening"
    /\ fq["poll"].pc = "await" /\ fq["main"].pc = "idle"
    /\ cycleSeries # {}

\* C21: every fetchQuota call of the polling loop is followed by the sleep
\* of the loop unless a shutdown signal arrives, a request fails, or the
\* process is ended from outside the loop, by the listener or the file
\* watcher (claim as stated; a panic inside the cycle ends the loop).
C21_KeepsCycling ==
    [](pollPc = "fetching" =>
          <>(\/ pollPc = "sleep"
             \/ shutdown
             \/ failed
             \/ exitCause \in {"listen", "client"}))

\* C22: in part_003 every WithLabelValues call hands the gauge as many
\* label values as it has labels: every series has a value per label, and
\* no call has ended the process for a wrong number of values (claim as
\* stated; a regional GLOBAL_CPUS reaches the one-label gauge of the global
\* CPUS with two values).
C22_LabelCountMatches ==
    variant = "p003" =>
        /\ \A n \in DOMAIN gauges : \A lvs \in DOMAIN gauges[n].series :
               Len(lvs) = Len(gauges[n].labels)
        /\ ~PublisherPanicked

\* the regions option was empty
EmptyRegionsOption == regions = StringsSplit(<<>>, ",")

\* C23: strings.Split of the empty regions option is the list of the one
\* empty string; a fetchQuota call then sends, per project, the project
\* request and one region request with the empty region; part_003 publishes
\* the answer of that request in gauges of the global prefix with the one
\* label project, and a metric that both answers of a project carry has two
\* observations of one cycle added to the same series.
C23_EmptyRegionPublishedGlobally ==
    EmptyRegionsOption =>
        /\ regions = <<(<<>>)>> /\ Len(regions) = 1
        /\ (NoFetchRunning /\ cycles >= 1 /\ cyclesDone = cycles =>
               /\ Len(requests) = 2 * Len(projects)
               /\ \A i \in DOMAIN projects :
                      /\ requests[2 * i - 1] = <<projects[i], None>>
                      /\ requests[2 * i] = <<projects[i], <<>> >>)
        /\ (variant = "p003" =>
               \A n \in DOMAIN gauges :
                   /\ IsPrefix(QuotaPrefix \o GlobalInfix, n)
                   /\ gauges[n].labels = <<"project">>)
        /\ (variant = "p003" /\ AfterFirstCycle =>
               \A i \in DOMAIN FirstCycleObs :
                   LET o == FirstCycleObs[i]
                   IN  o.region = <<>> =>
                         \A n \in ObservationKeys(o) :
                             /\ n \in DOMAIN gauges
                             /\ "regional" \in keyScopes[n]
                             /\ <<o.project>> \in DOMAIN gauges[n].series
                             /\ (ToSnakeCase(o.q.Metric) = <<"c", "p", "u", "s">> =>
                                    /\ keyScopes[n] = {"global", "regional"}
                                    /\ Len(AddedTo(o)) >= 2
                                    /\ gauges[GlobalCpusLimitName].series[<<o.project>>]
                                          = SumSeq(MapSeq(LAMBDA x : x.q.Limit, AddedTo(o)))
                                    /\ gauges[GlobalCpusUsageName].series[<<o.project>>]
                                          = SumSeq(MapSeq(LAMBDA x : x.q.Usage, AddedTo(o)))))

\* C23 witness: part_003 with the empty regions option has completed its
\* first cycle; the project request and the request with the empty region
\* both answered CPUS/100/42, and the global cpus gauges of project a show
\* 200 and 84.
C23_Witness ==
    /\ EmptyRegionsOption /\ variant = "p003" /\ AfterFirstCycle
    /\ requests = << <<(<<"a">>), None>>, <<(<<"a">>), <<>> >> >>
    /\ Len(FirstCycleObs) = 2
    /\ FirstCycleObs[2].region = <<>>
    /\ keyScopes[GlobalCpusLimitName] = {"global", "regional"}
    /\ gauges[GlobalCpusLimitName].series[<<(<<"a">>)>>] = 200
    /\ gauges[GlobalCpusUsageName].series[<<(<<"a">>)>>] = 84

\* C24: applyJitter returns a value only for an input of at least 4, where
\* int(0.25*input) is at least 1; for the inputs 0 .. 3 the deviation is 0
\* and the call ends in the abort of Intn(0), never in a return.
C24_SmallInputAborts ==
    /\ jitterCall.state = "returned" =>
           /\ jitterCall.input >= 4
           /\ jitterCall.deviation >= 1
    /\ jitterCall.state = "panicked" =>
           /\ jitterCall.input \in 0 .. 3
           /\ jitterCall.deviation = 0
    /\ (jitterCall.state = "called" /\ jitterCall.input \in 0 .. 3) =>
           applyJitter(jitterCall.input) = {}

\* C24 witness: applyJitter(3) has aborted with deviation 0.
C24_Witness ==
    jitterCall.state = "panicked" /\ jitterCall.input = 3 /\ jitterCall.deviation = 0

====
